---- MODULE Spec2Model ----
(***************************************************************************)
(* Model of make_scripts/move_localization.py: the function                *)
(* move_and_rename_fluent_strings moves (and optionally renames) Fluent    *)
(* entries from a source .ftl file to a destination .ftl file in every     *)
(* language directory under a base directory.                              *)
(*                                                                         *)
(* Strings (keys, filenames, lines) are sequences of one-character         *)
(* strings.  A file is a record [exists, body]; body is the sequence of    *)
(* entries that fluent.syntax's parser yields for the file's text.  An     *)
(* entry is [kind, id, content]: kind is the AST class, id is id.name for  *)
(* a Message or Term (<<>> otherwise) and content stands for the opaque    *)
(* rest of the entry.                                                      *)
(***************************************************************************)
EXTENDS Integers, Sequences, FiniteSets, TLC

\* ------------------------------------------------------------------ bounds
MaxLen == 2          \* longest source file of the first directory, in entries
MaxDst == 1          \* longest pre-existing destination file, in entries

\* ------------------------------------------------------ the input universe
LangEn == "en/"
LangPl == "pl/"
AllDirs == {LangEn, LangPl}

Filename1 == <<"a", ".", "f">>
Filename2 == <<"b", "b", ".", "f">>
Filenames == {Filename1, Filename2}

Key1 == <<"a", "b", "a">>
Key2 == <<"b", "b", "a">>

NoId == <<>>
SeparatorContent == 0            \* stands for the text "\n\n"

Message(k, c) == [kind |-> "Message", id |-> k, content |-> c]
Term(k, c) == [kind |-> "Term", id |-> k, content |-> c]
Junk(c) == [kind |-> "Junk", id |-> NoId, content |-> c]
Comment(c) == [kind |-> "Comment", id |-> NoId, content |-> c]

\* the kinds and ids an entry of an input file is drawn from
Shapes == {<<"Message", Key1>>, <<"Message", Key2>>, <<"Term", Key1>>,
           <<"Junk", NoId>>, <<"Comment", NoId>>}
DstShapes == {<<"Message", Key2>>, <<"Junk", NoId>>, <<"Comment", NoId>>}

\* entries of one file carry distinct contents: base + position
MkBody(shapes, base) ==
    [i \in DOMAIN shapes |->
        [kind |-> shapes[i][1], id |-> shapes[i][2], content |-> base + i]]

SeqsUpTo(S, n) == UNION {[1..m -> S] : m \in 0..n}

Absent == [exists |-> FALSE, body |-> <<>>]
File(b) == [exists |-> TRUE, body |-> b]

SourceFiles == {Absent} \cup {File(MkBody(s, 0)) : s \in SeqsUpTo(Shapes, MaxLen)}
DestinationFiles ==
    {Absent} \cup {File(MkBody(s, 100)) : s \in SeqsUpTo(DstShapes, MaxDst)}
\* the second directory takes its files from a fixed small set
PlSourceFiles == {Absent, File(<<Term(Key2, 51), Message(Key1, 52)>>)}
PlDestinationFiles == {Absent, File(<<Comment(151)>>)}

\* the key-list file: absent, or a sequence of lines
ListFiles ==
    { Absent,
      File(<< <<"\n">>, <<" ", "\n">> >>),
      File(<< Key1 \o <<"\n">> >>),
      File(<< <<" ">> \o Key1 \o <<" ", "\n">>, <<"\n">>, Key2 >>) }

\* --------------------------------------------------------------- the state
VARIABLES
    language_dirs_on_disk,  \* the subdirectories of base_dir
    strings_to_move_file,   \* the key-list file
    source_filename, destination_filename, rename_keys,   \* arguments
    fs,                     \* fs[dir][filename]: the files of each directory
    pc,                     \* position in move_and_rename_fluent_strings
    run,                    \* 1: first invocation, 2: second invocation
    source_prefix, destination_prefix, keys_to_move,
    visited,                \* directories the for loop has finished with
    lang_dir,               \* the loop variable
    source_resource, moved_entries, remaining_entries, destination_resource,
    out,                    \* the lines printed by this invocation
    fs0,                    \* history: the files before the first invocation
    fs1                     \* history: the files after the first invocation

vars == <<language_dirs_on_disk, strings_to_move_file, source_filename,
          destination_filename, rename_keys, fs, pc, run, source_prefix,
          destination_prefix, keys_to_move, visited, lang_dir,
          source_resource, moved_entries, remaining_entries,
          destination_resource, out, fs0, fs1>>

args == <<language_dirs_on_disk, strings_to_move_file, source_filename,
          destination_filename, rename_keys>>
locals == <<source_resource, moved_entries, remaining_entries,
            destination_resource>>

\* ---------------------------------------------------------- pure functions
IsSpace(c) == c \in {" ", "\n", "\t"}

\* str.strip()
RECURSIVE LStrip(_)
LStrip(s) == IF s # <<>> /\ IsSpace(Head(s)) THEN LStrip(Tail(s)) ELSE s
RECURSIVE RStrip(_)
RStrip(s) ==
    IF s # <<>> /\ IsSpace(s[Len(s)]) THEN RStrip(SubSeq(s, 1, Len(s) - 1)) ELSE s
Strip(s) == RStrip(LStrip(s))

\* {line.strip() for line in f if line.strip()}
KeysOfListFile(f) == {Strip(f.body[i]) : i \in {j \in DOMAIN f.body : Strip(f.body[j]) # <<>>}}

\* os.path.splitext(p)[0] for a name without path separators: cut at the
\* last dot unless only dots precede it
SplitextRoot(p) ==
    LET dots == {i \in DOMAIN p : p[i] = "."}
        d == IF dots = {} THEN 0 ELSE CHOOSE i \in dots : \A j \in dots : j <= i
    IN  IF d > 0 /\ \E j \in 1..(d - 1) : p[j] # "."
        THEN SubSeq(p, 1, d - 1)
        ELSE p

\* the start indices at which old occurs in s
Occurrences(s, old) ==
    {i \in 1..(Len(s) - Len(old) + 1) : SubSeq(s, i, i + Len(old) - 1) = old}

\* ReplaceAll is Replace as str.replace(old, new) without the count would do it
RECURSIVE ReplaceAll(_, _, _)
ReplaceAll(s, old, new) ==
    LET occ == Occurrences(s, old)
    IN  IF occ = {} \/ old = <<>>
        THEN s
        ELSE LET i == CHOOSE k \in occ : \A j \in occ : k <= j
             IN  SubSeq(s, 1, i - 1) \o new
                     \o ReplaceAll(SubSeq(s, i + Len(old), Len(s)), old, new)

\* s.replace(old, new, 1)
Replace(s, old, new) ==
    LET occ == Occurrences(s, old)
    IN  IF occ = {}
        THEN s
        ELSE LET i == CHOOSE k \in occ : \A j \in occ : k <= j
             IN  SubSeq(s, 1, i - 1) \o new \o SubSeq(s, i + Len(old), Len(s))

\* FluentParser().parse(text): the entries of the file's text
Parse(file) == file.body

\* FluentSerializer().serialize(resource): the serializer is built without
\* with_junk=True, so serialize() leaves Junk entries out of the text
Serialize(body) == File(SelectSeq(body, LAMBDA e : e.kind # "Junk"))

\* isinstance(entry, (ast.Message, ast.Term)), and the same for Message only
IsMessage(entry) == entry.kind = "Message"
IsMessageOrTerm(entry) == entry.kind \in {"Message", "Term"}

\* the body of `if rename_keys:` for one entry
Renamed(entry) ==
    IF rename_keys
    THEN [entry EXCEPT !.id = Replace(@, source_prefix, destination_prefix)]
    ELSE entry

\* the for loop over source_resource.body; the rename assigns entry.id.name in
\* place, so the entry held by source_resource.body is renamed as well
RECURSIVE PartitionLoop(_, _, _, _)
PartitionLoop(body, i, moved, remaining) ==
    IF i > Len(body)
    THEN [body |-> body, moved |-> moved, remaining |-> remaining]
    ELSE LET entry == body[i]
         IN  IF IsMessageOrTerm(entry)
             THEN IF entry.id \in keys_to_move
                  THEN PartitionLoop([body EXCEPT ![i] = Renamed(entry)], i + 1,
                                     Append(moved, Renamed(entry)), remaining)
                  ELSE PartitionLoop(body, i + 1, moved, Append(remaining, entry))
             ELSE PartitionLoop(body, i + 1, moved, Append(remaining, entry))

\* the lines `Renamed 'old' to 'new'` the loop prints
Line(msg, dir, n, old, new) ==
    [msg |-> msg, dir |-> dir, n |-> n, old |-> old, new |-> new]
RECURSIVE RenamedLines(_, _)
RenamedLines(body, i) ==
    IF i > Len(body)
    THEN <<>>
    ELSE IF rename_keys /\ IsMessageOrTerm(body[i]) /\ body[i].id \in keys_to_move
         THEN <<Line("Renamed", "", 0, body[i].id, Renamed(body[i]).id)>>
                  \o RenamedLines(body, i + 1)
         ELSE RenamedLines(body, i + 1)

\* os.path.exists(os.path.join(lang_dir, name))
Exists(dir, name) == fs[dir][name].exists

\* destination_resource as loaded or created
LoadDestinationStale(dir) ==
    IF Exists(dir, destination_filename)
    THEN Parse(fs[dir][destination_filename])
    ELSE destination_resource
LoadDestination(dir) ==
    IF Exists(dir, destination_filename)
    THEN Parse(fs[dir][destination_filename])
    ELSE <<>>

\* whether the blank-line Junk is appended before the moved entries
NeedsSeparatorAlways(body) == body # <<>>
NeedsSeparator(body) == body # <<>> /\ body[Len(body)].kind # "Junk"

\* ast.Resource(body=remaining_entries)
RemainingUnfiltered == source_resource
RemainingResource == remaining_entries

\* the directories the loop has finished with after a `continue`
SkipBreak(dir) == language_dirs_on_disk
SkipContinue(dir) == visited \cup {dir}

\* ------------------------------------------------------------------- Init
FilesOf(src, dst, sf, df) == [n \in {src, dst} |-> IF n = src THEN sf ELSE df]

Init ==
    /\ language_dirs_on_disk \in {{}, {LangEn}, AllDirs}
    /\ strings_to_move_file \in ListFiles
    /\ source_filename \in Filenames
    /\ destination_filename \in Filenames
    /\ rename_keys \in BOOLEAN
    /\ \E sf \in SourceFiles, df \in DestinationFiles,
          psf \in PlSourceFiles, pdf \in PlDestinationFiles :
          fs = [d \in language_dirs_on_disk |->
                   IF d = LangEn
                   THEN FilesOf(source_filename, destination_filename, sf, df)
                   ELSE FilesOf(source_filename, destination_filename, psf, pdf)]
    /\ pc = "start"
    /\ run = 1
    /\ source_prefix = <<>>
    /\ destination_prefix = <<>>
    /\ keys_to_move = {}
    /\ visited = {}
    /\ lang_dir = ""
    /\ source_resource = <<>>
    /\ moved_entries = <<>>
    /\ remaining_entries = <<>>
    /\ destination_resource = <<>>
    /\ out = <<>>
    /\ fs0 = fs
    /\ fs1 = fs

\* ---------------------------------------------------------------- actions
\* lines 20-22
ExitNoListFile ==
    /\ pc = "start"
    /\ ~strings_to_move_file.exists
    /\ pc' = "done"
    /\ out' = Append(out, Line("Error: strings list file does not exist", "", 0, <<>>, <<>>))
    /\ UNCHANGED <<args, fs, run, source_prefix, destination_prefix,
                   keys_to_move, visited, lang_dir, locals, fs0, fs1>>

\* lines 24-36
ExitNoKeys ==
    /\ pc = "start"
    /\ strings_to_move_file.exists
    /\ KeysOfListFile(strings_to_move_file) = {}
    /\ source_prefix' = IF rename_keys THEN SplitextRoot(source_filename) ELSE <<>>
    /\ destination_prefix' = IF rename_keys THEN SplitextRoot(destination_filename) ELSE <<>>
    /\ keys_to_move' = {}
    /\ pc' = "done"
    /\ out' = Append(out, Line("No keys to move. Exiting.", "", 0, <<>>, <<>>))
    /\ UNCHANGED <<args, fs, run, visited, lang_dir, locals, fs0, fs1>>

\* lines 24-43
ExitNoDirs ==
    /\ pc = "start"
    /\ strings_to_move_file.exists
    /\ KeysOfListFile(strings_to_move_file) # {}
    /\ language_dirs_on_disk = {}
    /\ source_prefix' = IF rename_keys THEN SplitextRoot(source_filename) ELSE <<>>
    /\ destination_prefix' = IF rename_keys THEN SplitextRoot(destination_filename) ELSE <<>>
    /\ keys_to_move' = KeysOfListFile(strings_to_move_file)
    /\ pc' = "done"
    /\ out' = Append(out, Line("No language directories found", "", 0, <<>>, <<>>))
    /\ UNCHANGED <<args, fs, run, visited, lang_dir, locals, fs0, fs1>>

\* lines 24-45: the loop is entered
EnterLoop ==
    /\ pc = "start"
    /\ strings_to_move_file.exists
    /\ KeysOfListFile(strings_to_move_file) # {}
    /\ language_dirs_on_disk # {}
    /\ source_prefix' = IF rename_keys THEN SplitextRoot(source_filename) ELSE <<>>
    /\ destination_prefix' = IF rename_keys THEN SplitextRoot(destination_filename) ELSE <<>>
    /\ keys_to_move' = KeysOfListFile(strings_to_move_file)
    /\ pc' = "loop"
    /\ UNCHANGED <<args, fs, run, visited, lang_dir, locals, out, fs0, fs1>>

\* lines 45-51: a directory without the source file
Skip(dir) ==
    /\ pc = "loop"
    /\ dir \in language_dirs_on_disk \ visited
    /\ ~Exists(dir, source_filename)
    /\ lang_dir' = dir
    /\ visited' = SkipContinue(dir)
    /\ out' = Append(out, Line("Skipping", dir, 0, <<>>, <<>>))
    /\ UNCHANGED <<args, fs, pc, run, source_prefix, destination_prefix,
                   keys_to_move, locals, fs0, fs1>>

\* lines 45-85: read and partition the source, load or create the destination
ReadAndPartition(dir) ==
    /\ pc = "loop"
    /\ dir \in language_dirs_on_disk \ visited
    /\ Exists(dir, source_filename)
    /\ lang_dir' = dir
    /\ LET p == PartitionLoop(Parse(fs[dir][source_filename]), 1, <<>>, <<>>)
       IN  /\ source_resource' = p.body
           /\ moved_entries' = p.moved
           /\ remaining_entries' = p.remaining
    /\ destination_resource' = LoadDestination(dir)
    /\ out' = Append(out, Line("Processing", dir, 0, <<>>, <<>>))
                  \o RenamedLines(Parse(fs[dir][source_filename]), 1)
    /\ pc' = "append"
    /\ UNCHANGED <<args, fs, run, source_prefix, destination_prefix,
                   keys_to_move, visited, fs0, fs1>>

\* lines 88-100: append the moved entries and write the destination file
WriteDestination ==
    /\ pc = "append"
    /\ moved_entries # <<>>
    /\ LET body == (IF NeedsSeparator(destination_resource)
                    THEN Append(destination_resource, Junk(SeparatorContent))
                    ELSE destination_resource) \o moved_entries
       IN  /\ destination_resource' = body
           /\ fs' = [fs EXCEPT ![lang_dir][destination_filename] = Serialize(body)]
    /\ out' = Append(out, Line("Successfully moved", lang_dir, Len(moved_entries), <<>>, <<>>))
    /\ pc' = "write_source"
    /\ UNCHANGED <<args, run, source_prefix, destination_prefix, keys_to_move,
                   visited, lang_dir, source_resource, moved_entries,
                   remaining_entries, fs0, fs1>>

\* lines 101-102
NoKeysFound ==
    /\ pc = "append"
    /\ moved_entries = <<>>
    /\ out' = Append(out, Line("No keys found to move in this file.", "", 0, <<>>, <<>>))
    /\ pc' = "write_source"
    /\ UNCHANGED <<args, fs, run, source_prefix, destination_prefix,
                   keys_to_move, visited, lang_dir, locals, fs0, fs1>>

\* lines 104-109: write the remaining entries back to the source file
WriteSource ==
    /\ pc = "write_source"
    /\ fs' = [fs EXCEPT ![lang_dir][source_filename] = Serialize(RemainingResource)]
    /\ out' = Append(out, Line("Updated the source file.", "", 0, <<>>, <<>>))
    /\ visited' = visited \cup {lang_dir}
    /\ pc' = "loop"
    /\ UNCHANGED <<args, run, source_prefix, destination_prefix, keys_to_move,
                   lang_dir, locals, fs0, fs1>>

\* the for loop is exhausted and the function returns
Finish ==
    /\ pc = "loop"
    /\ visited = language_dirs_on_disk
    /\ pc' = "done"
    /\ UNCHANGED <<args, fs, run, source_prefix, destination_prefix,
                   keys_to_move, visited, lang_dir, locals, out, fs0, fs1>>

\* lines 111-127: the script is invoked again with the same arguments
RunAgain ==
    /\ pc = "done"
    /\ run = 1
    /\ run' = 2
    /\ pc' = "start"
    /\ source_prefix' = <<>>
    /\ destination_prefix' = <<>>
    /\ keys_to_move' = {}
    /\ visited' = {}
    /\ lang_dir' = ""
    /\ source_resource' = <<>>
    /\ moved_entries' = <<>>
    /\ remaining_entries' = <<>>
    /\ destination_resource' = <<>>
    /\ out' = <<>>
    /\ fs1' = fs
    /\ UNCHANGED <<args, fs, fs0>>

Next ==
    \/ ExitNoListFile
    \/ ExitNoKeys
    \/ ExitNoDirs
    \/ EnterLoop
    \/ \E dir \in AllDirs : Skip(dir)
    \/ \E dir \in AllDirs : ReadAndPartition(dir)
    \/ WriteDestination
    \/ NoKeysFound
    \/ WriteSource
    \/ Finish
    \/ RunAgain

Spec == Init /\ [][Next]_vars

\* ------------------------------------------------- definitions for the claims
Movable(entry) == entry.kind \in {"Message", "Term"} /\ entry.id \in keys_to_move

\* the files of a directory before the invocation in progress
Before(dir) == IF run = 1 THEN fs0[dir] ELSE fs1[dir]
BodyOf(file) == IF file.exists THEN file.body ELSE <<>>

\* positions at which an entry with the kind and content of e stands in body
Places(body, e) ==
    {j \in DOMAIN body : body[j].kind = e.kind /\ body[j].content = e.content}

Separator == [kind |-> "Junk", id |-> NoId, content |-> SeparatorContent]

\* old stands in s at index i
OccursAt(s, old, i) ==
    i + Len(old) - 1 <= Len(s) /\ SubSeq(s, i, i + Len(old) - 1) = old

\* t is s with the first occurrence of old replaced by new, stated by parts
IsFirstReplaced(s, old, new, t) ==
    \/ /\ \A i \in 1..Len(s) : ~OccursAt(s, old, i)
       /\ t = s
    \/ \E i \in 1..Len(s) :
          /\ OccursAt(s, old, i)
          /\ \A k \in 1..(i - 1) : ~OccursAt(s, old, k)
          /\ t = SubSeq(s, 1, i - 1) \o new \o SubSeq(s, i + Len(old), Len(s))

\* the moved entries of a source body, as the destination is to receive them
ExpectedMoved(body) ==
    LET sel == SelectSeq(body, Movable)
    IN  [i \in DOMAIN sel |-> Renamed(sel[i])]
ExpectedRemaining(body) == SelectSeq(body, LAMBDA e : ~Movable(e))

HasLine(msg) == \E i \in DOMAIN out : out[i].msg = msg
HasLineFor(msg, dir) == \E i \in DOMAIN out : out[i].msg = msg /\ out[i].dir = dir

\* a directory of the first invocation that held the source file and is done
Processed(dir) == run = 1 /\ dir \in visited /\ fs0[dir][source_filename].exists

\* C1: after the partition step every entry of the source Resource is in
\* exactly one of moved_entries / remaining_entries, and it is in moved_entries
\* iff it is a Message or Term whose key, as the source file has it, is in the
\* key set; Junk and every other kind of entry are in remaining_entries.
C1_Partition ==
    pc = "append" =>
        LET orig == Parse(fs[lang_dir][source_filename])
        IN  /\ Len(moved_entries) + Len(remaining_entries) = Len(orig)
            /\ \A i \in DOMAIN orig :
                  LET m == Places(moved_entries, orig[i])
                      r == Places(remaining_entries, orig[i])
                  IN  /\ Cardinality(m) + Cardinality(r) = 1
                      /\ m # {} <=> Movable(orig[i])
                      /\ orig[i].kind \notin {"Message", "Term"} => r # {}

C1_Witness ==
    /\ pc = "append"
    /\ rename_keys
    /\ \E j \in DOMAIN moved_entries : moved_entries[j].kind = "Term"
    /\ \E j \in DOMAIN remaining_entries : remaining_entries[j].kind = "Message"

\* C4: exactly one blank-line separator is appended to the destination
\* Resource, before the moved entries, iff moved_entries is non-empty, the
\* destination Resource is non-empty and its last entry is not Junk; otherwise
\* no separator is added.
C4_Separator ==
    pc = "write_source" =>
        LET pre == BodyOf(Before(lang_dir)[destination_filename])
            need == /\ moved_entries # <<>>
                    /\ pre # <<>>
                    /\ pre[Len(pre)].kind # "Junk"
        IN  /\ need => destination_resource = pre \o <<Separator>> \o moved_entries
            /\ ~need => \A j \in DOMAIN destination_resource :
                            destination_resource[j] # Separator

C4_Witness ==
    /\ pc = "write_source"
    /\ \E j \in DOMAIN destination_resource : destination_resource[j] = Separator
    /\ Len(moved_entries) = 2

\* C5: with renaming enabled every moved entry's key is its original key with
\* the first occurrence of the source prefix (the source filename without
\* its extension) replaced by the destination prefix, later occurrences left
\* alone and a key without the source prefix left unchanged; the keys of
\* remaining entries never change; with renaming disabled no key changes.
C5_Rename ==
    pc = "append" =>
        LET orig == Parse(fs[lang_dir][source_filename])
        IN  /\ rename_keys => /\ source_filename = source_prefix \o <<".", "f">>
                              /\ destination_filename = destination_prefix \o <<".", "f">>
            /\ \A i \in DOMAIN orig :
                  /\ \A j \in Places(moved_entries, orig[i]) :
                        IF rename_keys
                        THEN IsFirstReplaced(orig[i].id, source_prefix,
                                             destination_prefix, moved_entries[j].id)
                        ELSE moved_entries[j].id = orig[i].id
                  /\ \A j \in Places(remaining_entries, orig[i]) :
                        remaining_entries[j].id = orig[i].id

C5_Witness ==
    /\ pc = "append"
    /\ rename_keys
    /\ source_prefix = <<"a">>
    /\ destination_prefix = <<"b", "b">>
    /\ \E j \in DOMAIN moved_entries : moved_entries[j].id = <<"b", "b", "b", "a">>
    /\ \E j \in DOMAIN remaining_entries : remaining_entries[j].id = Key2

\* C6 as stated: a processed directory without a destination file gets a
\* destination file that holds exactly the moved entries.
C6_Original ==
    \A dir \in language_dirs_on_disk :
        Processed(dir) /\ ~fs0[dir][destination_filename].exists =>
            /\ fs[dir][destination_filename].exists
            /\ fs[dir][destination_filename].body
                   = ExpectedMoved(fs0[dir][source_filename].body)

\* C6 amended: a processed directory without a destination file gets, when at
\* least one entry is moved, a destination file that holds exactly the moved
\* entries, with no other entry and no separator; when no entry is moved the
\* destination file is not created.
C6_CreatedDestination ==
    \A dir \in language_dirs_on_disk :
        Processed(dir) /\ ~fs0[dir][destination_filename].exists =>
            LET moved == ExpectedMoved(fs0[dir][source_filename].body)
            IN  IF moved # <<>>
                THEN /\ fs[dir][destination_filename].exists
                     /\ fs[dir][destination_filename].body = moved
                ELSE ~fs[dir][destination_filename].exists

C6_Witness ==
    /\ Processed(LangEn)
    /\ ~fs0[LangEn][destination_filename].exists
    /\ fs[LangEn][destination_filename].exists
    /\ Len(fs[LangEn][destination_filename].body) = 1
    /\ Len(fs[LangEn][source_filename].body) = 1

\* C7: a directory without the source file is skipped: none of its files is
\* created or modified, and the run goes on to process every directory that
\* has the source file, in whatever order the directories are visited.
C7_Skip ==
    /\ \A dir \in language_dirs_on_disk :
          ~fs0[dir][source_filename].exists => fs[dir] = fs0[dir]
    /\ pc = "done" /\ keys_to_move # {} =>
          \A dir \in language_dirs_on_disk :
              IF fs0[dir][source_filename].exists
              THEN HasLineFor("Processing", dir) /\ ~HasLineFor("Skipping", dir)
              ELSE HasLineFor("Skipping", dir) /\ ~HasLineFor("Processing", dir)

C7_Witness ==
    /\ pc = "done"
    /\ run = 1
    /\ out # <<>>
    /\ out[1].msg = "Skipping"
    /\ fs0[LangEn][destination_filename].exists
    /\ HasLineFor("Successfully moved", LangPl)

\* C8: a second run with the same key list and arguments is a no-op in every
\* directory: no entry is moved (the "No keys found to move" branch is taken),
\* the destination file is not written and the source files' entries and
\* their order stay as the first run left them.
C8_Idempotent ==
    run = 2 =>
        /\ fs = fs1
        /\ ~HasLine("Successfully moved")
        /\ pc = "write_source" =>
              /\ moved_entries = <<>>
              /\ out[Len(out)].msg = "No keys found to move in this file."

C8_Witness ==
    /\ run = 2
    /\ pc = "done"
    /\ fs1 # fs0
    /\ HasLine("No keys found to move in this file.")
    /\ HasLine("Skipping")

\* C2 as stated: after a directory with the source file is processed, the
\* source file holds exactly the remaining entries, in their original relative
\* order and with their keys unchanged.
C2_SourceHoldsRemaining ==
    \A dir \in language_dirs_on_disk :
        Processed(dir) =>
            fs[dir][source_filename]
                = File(ExpectedRemaining(fs0[dir][source_filename].body))

\* C3 as stated: after a directory is processed with at least one moved entry
\* the destination file holds the entries it held before, unchanged and in
\* order, then an optional separator, then the moved entries in source order.
C3_DestinationAppended ==
    \A dir \in language_dirs_on_disk :
        Processed(dir) /\ ExpectedMoved(fs0[dir][source_filename].body) # <<>> =>
            LET pre == BodyOf(fs0[dir][destination_filename])
                moved == ExpectedMoved(fs0[dir][source_filename].body)
            IN  /\ fs[dir][destination_filename].exists
                /\ fs[dir][destination_filename].body
                       \in {pre \o moved, pre \o <<Separator>> \o moved}

\* C9 as stated: at every point between whole-file writes each entry of a
\* directory's original source file is in that directory's source file or
\* destination file, and directories not yet reached are unmodified.
C9_NeverAbsent ==
    run = 1 =>
        \A dir \in language_dirs_on_disk :
            /\ fs0[dir][source_filename].exists =>
                  \A i \in DOMAIN fs0[dir][source_filename].body :
                      LET e == fs0[dir][source_filename].body[i]
                      IN  \/ Places(BodyOf(fs[dir][source_filename]), e) # {}
                          \/ Places(BodyOf(fs[dir][destination_filename]), e) # {}
            /\ dir \notin visited /\ dir # lang_dir => fs[dir] = fs0[dir]

\* C10 as stated: after a directory is processed every entry of the original
\* source file is present exactly once across the source and destination
\* files (moved entries only in the destination, remaining entries only in
\* the source), and every entry the destination held before is still there.
C10_Conservation ==
    \A dir \in language_dirs_on_disk :
        Processed(dir) =>
            LET orig == fs0[dir][source_filename].body
                pre == BodyOf(fs0[dir][destination_filename])
                src == BodyOf(fs[dir][source_filename])
                dst == BodyOf(fs[dir][destination_filename])
            IN  /\ \A i \in DOMAIN orig :
                      IF Movable(orig[i])
                      THEN /\ Cardinality(Places(dst, orig[i])) = 1
                           /\ Places(src, orig[i]) = {}
                      ELSE /\ Cardinality(Places(src, orig[i])) = 1
                           /\ Places(dst, orig[i]) = {}
                /\ \A i \in DOMAIN pre : Places(dst, pre[i]) # {}

====
